---- MODULE Spec2Model ----
(***************************************************************************)
(* The service layer of the unifi_wifi integration                         *)
(* (custom_components/unifi_wifi/__init__.py): the three registered        *)
(* services, their input schemas, the coordinator lookup by name and the   *)
(* SSID check against a coordinator's cached WLAN list.                    *)
(*                                                                         *)
(* A service call is a coroutine.  Each action below is the code between   *)
(* two suspension points (await) of a handler, so everything a handler     *)
(* does without yielding to the event loop happens in one step.            *)
(* Python's 0-based list positions are written 1-based; position 0 stands  *)
(* for "no position".                                                      *)
(***************************************************************************)
EXTENDS Integers, Sequences, FiniteSets, TLC

VARIABLES
    wlanconf,         \* wlanconf[i]: coordinators[i].wlanconf, the cached WLAN list
    refresh_pending,  \* refresh_pending[i]: a refresh job of coordinators[i] waits on the event loop
    calls             \* calls[c]: the service call running in slot c

vars == <<wlanconf, refresh_pending, calls>>

-----------------------------------------------------------------------------
(* Bounds of the model *)

\* longest WLAN list a controller answers with
MaxWlans == 2

-----------------------------------------------------------------------------
(* Constants of the program *)

PASSWORD_MIN == 8
PASSWORD_MAX == 63
WORD_LENGTH_MIN == 3
WORD_LENGTH_MAX == 9
WORD_COUNT_MIN == 3
WORD_COUNT_MAX == 6
CHAR_COUNT_MIN == 8
CHAR_COUNT_MAX == 63
DEFAULT_MIN_LENGTH == 5
DEFAULT_MAX_LENGTH == 8
DEFAULT_WORD_COUNT == 4
DEFAULT_CHAR_COUNT == 24

SERVICE_CUSTOM_PASSWORD == "custom_password"
SERVICE_RANDOM_PASSWORD == "random_password"
SERVICE_ENABLE_WLAN == "enable_wlan"
Services == {SERVICE_CUSTOM_PASSWORD, SERVICE_RANDOM_PASSWORD, SERVICE_ENABLE_WLAN}

UNIFI_NAME == "name"
UNIFI_PASSWORD == "x_passphrase"

\* the tokens of const.py: the delimiter tokens are those the branches of
\* random_password_service map, the methods those of the specification
CONF_METHOD_TYPES == {"passphrase", "random"}
CONF_DELIMITER_TYPES == {"space", "dash", "none"}

\* an optional key the caller left out
ABSENT == "absent"

-----------------------------------------------------------------------------
(* The configuration: config[DOMAIN], names unique (_unique_names) *)

coordinators == <<[name |-> "c1"], [name |-> "c2"]>>

Inds == 1..Len(coordinators)

\* slots for service calls in flight
Calls == {1, 2}

\* Python values that reach _validate_ssid as its first argument
IntVal(i) == [type |-> "int", int |-> i, str |-> ""]
StrVal(s) == [type |-> "str", int |-> 0, str |-> s]

-----------------------------------------------------------------------------
(* Values *)

\* a password is modelled by its length and whether it is all ASCII
Pw(n, a) == [len |-> n, ascii |-> a]
NoPw == Pw(0, TRUE)

NoPayload == [key |-> "", pw |-> NoPw, flag |-> ""]

\* one entry of a handler's record of what it did
Ev(op, ind, ssid, payload) == [op |-> op, ind |-> ind, ssid |-> ssid, payload |-> payload]

NoData ==
    [name |-> "", ssid |-> "", password |-> NoPw, method |-> "", delimiter |-> "",
     min_length |-> 0, max_length |-> 0, word_count |-> 0, char_count |-> 0,
     enabled |-> FALSE]

IdleCall ==
    [pc |-> "idle", service |-> "", user_id |-> "", data |-> NoData,
     ind |-> 0, delimiter |-> "", password |-> NoPw,
     result |-> "", trace |-> <<>>, present |-> FALSE]

-----------------------------------------------------------------------------
(* Input schemas *)

_is_ascii(obj) == obj.password.ascii

SERVICE_CUSTOM_PASSWORD_SCHEMA(obj) ==
    [ok |-> /\ obj.password.len >= PASSWORD_MIN
            /\ obj.password.len <= PASSWORD_MAX
            /\ _is_ascii(obj),
     data |-> obj]

\* _check_word_lengths letting every pair through
_check_word_lengths_off(obj) == TRUE

_check_word_lengths(obj) == ~(obj.min_length > obj.max_length)

WordLengthRange == WORD_LENGTH_MIN..WORD_LENGTH_MAX

\* the word_count range one wider
WordCountRangeWide == WORD_COUNT_MIN..(WORD_COUNT_MAX + 1)

WordCountRange == WORD_COUNT_MIN..WORD_COUNT_MAX

CharCountRange == CHAR_COUNT_MIN..CHAR_COUNT_MAX

DelimiterTokens == CONF_DELIMITER_TYPES

\* vol.Optional(key, default=d): a key left out takes its default
OptInt(v, d) == IF v = 0 THEN d ELSE v
OptStr(v, d) == IF v = ABSENT THEN d ELSE v

RandomDefaults(obj) ==
    [obj EXCEPT !.delimiter = OptStr(obj.delimiter, "space"),
                !.min_length = OptInt(obj.min_length, DEFAULT_MIN_LENGTH),
                !.max_length = OptInt(obj.max_length, DEFAULT_MAX_LENGTH),
                !.word_count = OptInt(obj.word_count, DEFAULT_WORD_COUNT),
                !.char_count = OptInt(obj.char_count, DEFAULT_CHAR_COUNT)]

SERVICE_RANDOM_PASSWORD_SCHEMA(obj) ==
    LET d == RandomDefaults(obj) IN
    [ok |-> /\ d.method \in CONF_METHOD_TYPES
            /\ d.delimiter \in DelimiterTokens
            /\ d.min_length \in WordLengthRange
            /\ d.max_length \in WordLengthRange
            /\ d.word_count \in WordCountRange
            /\ d.char_count \in CharCountRange
            /\ _check_word_lengths(d),
     data |-> d]

SERVICE_ENABLE_WLAN_SCHEMA(obj) == [ok |-> TRUE, data |-> obj]

\* hass.services.async_register(..., schema=...): the schema a call's data
\* passes through before its handler runs
Schema(service, obj) ==
    CASE service = SERVICE_CUSTOM_PASSWORD -> SERVICE_CUSTOM_PASSWORD_SCHEMA(obj)
      [] service = SERVICE_RANDOM_PASSWORD -> SERVICE_RANDOM_PASSWORD_SCHEMA(obj)
      [] OTHER -> SERVICE_ENABLE_WLAN_SCHEMA(obj)

-----------------------------------------------------------------------------
(* Users known to hass.auth *)

UserIds == {"", "admin", "guest", "gone"}

\* hass.auth.async_get_user: "none" for an id no user has
async_get_user(user_id) ==
    CASE user_id = "admin" -> [found |-> TRUE, is_admin |-> TRUE]
      [] user_id = "guest" -> [found |-> TRUE, is_admin |-> FALSE]
      [] OTHER -> [found |-> FALSE, is_admin |-> FALSE]

\* AuthCheck with the is_admin test left out
AuthCheckKnownOnly(user) == IF ~user.found THEN "NameError" ELSE "ok"

\* the check every handler opens with, once the user is resolved:
\* UnknownUser is never imported, so raising it is a NameError
AuthCheck(user) ==
    IF ~user.found THEN "NameError"
    ELSE IF ~user.is_admin THEN "Unauthorized"
    ELSE "ok"

-----------------------------------------------------------------------------
(* _coordinator_index and _validate_ssid *)

RECURSIVE IndexFrom(_, _)
IndexFrom(i, name) ==
    IF i > Len(coordinators) THEN 0
    ELSE IF coordinators[i].name = name THEN i
    ELSE IndexFrom(i + 1, name)

\* _coordinator_index falling back on the first coordinator instead of raising
_coordinator_index_or_first(name) == IF IndexFrom(1, name) = 0 THEN 1 ELSE IndexFrom(1, name)

\* 0: raise ValueError("The coordinator ... is not configured in YAML")
_coordinator_index(name) == IndexFrom(1, name)

RECURSIVE ScanFrom(_, _, _)
ScanFrom(i, conf, ssid) ==
    IF i > Len(conf) THEN 0
    ELSE IF conf[i][UNIFI_NAME] = ssid THEN i
    ELSE ScanFrom(i + 1, conf, ssid)

\* the loop returning True at the first entry, whatever its name
FirstEntry(conf, ssid) == IF Len(conf) > 0 THEN 1 ELSE 0

\* the loop running on to the last entry of the name
LastMatch(conf, ssid) ==
    IF \E k \in DOMAIN conf : conf[k][UNIFI_NAME] = ssid
    THEN CHOOSE k \in DOMAIN conf :
            /\ conf[k][UNIFI_NAME] = ssid
            /\ \A j \in DOMAIN conf : conf[j][UNIFI_NAME] = ssid => j <= k
    ELSE 0

\* the loop of _validate_ssid: the position at which it returns True, 0 when
\* it falls through to the raise
FirstMatch(conf, ssid) == ScanFrom(1, conf, ssid)

\* coordinators[ind]: a list takes an integer position only
Subscriptable(arg) == arg.type = "int" /\ arg.int \in Inds

\* _validate_ssid without its add_job line
RefreshNotRequested(ind) == <<>>

\* hass.add_job(coordinators[ind].async_request_refresh()): the coordinators
\* whose refresh is asked for, in order
RefreshRequested(ind) == <<ind>>

\* _validate_ssid(arg, ssid) on the caches conf: what it raises ("" when it
\* returns True), the refreshes it asked for, the caches it read and the
\* position its loop stopped at
_validate_ssid(arg, ssid, conf) ==
    IF ~Subscriptable(arg)
    THEN [raised |-> "TypeError", refresh |-> <<>>, read |-> <<>>, at |-> 0]
    ELSE LET at == FirstMatch(conf[arg.int], ssid) IN
         [raised |-> IF at = 0 THEN "SsidNotFound" ELSE "",
          refresh |-> RefreshRequested(arg.int),
          read |-> <<arg.int>>,
          at |-> at]

-----------------------------------------------------------------------------
(* pw.create (password.py), after section 4.1 of the specification *)

DelimiterLen(delimiter) == IF delimiter = "" THEN 0 ELSE 1

\* total letters of k words, each of a length in lo..hi
RECURSIVE WordsLen(_, _, _)
WordsLen(k, lo, hi) ==
    IF k = 0 THEN {0}
    ELSE {t + w : t \in WordsLen(k - 1, lo, hi), w \in lo..hi}

\* the passwords create may return
create(method, delimiter, min_length, max_length, word_count, char_count) ==
    IF method = "passphrase"
    THEN {Pw(t + (word_count - 1) * DelimiterLen(delimiter), TRUE) :
            t \in WordsLen(word_count, min_length, max_length)}
    ELSE {Pw(char_count, TRUE)}

-----------------------------------------------------------------------------
(* The handlers *)

\* delimiter_raw to delimiter; "?" for the else branch (ValueError)
Delimiter(delimiter_raw) ==
    CASE delimiter_raw = "space" -> " "
      [] delimiter_raw = "dash" -> "-"
      [] delimiter_raw = "none" -> ""
      [] OTHER -> "?"

\* str(enabled).lower()
LowerStr(enabled) == IF enabled THEN "true" ELSE "false"

Fail(call, result) == [call EXCEPT !.pc = "done", !.result = result]

\* every handler checking the first coordinator
ValidateArgFirst(call, ind) == IntVal(1)

\* the first argument each handler hands to _validate_ssid
ValidateArg(call, ind) ==
    IF call.service = SERVICE_ENABLE_WLAN
    THEN StrVal(call.data.name)
    ELSE IntVal(ind)

CustomPayload(call) == [key |-> UNIFI_PASSWORD, pw |-> call.data.password, flag |-> ""]

\* the random-password payload built from the call's data, as the
\* custom-password handler builds its own
RandomPayloadFromData(call) == [key |-> UNIFI_PASSWORD, pw |-> call.data.password, flag |-> ""]

RandomPayload(call) == [key |-> UNIFI_PASSWORD, pw |-> call.password, flag |-> ""]

EnablePayload(call) == [key |-> "enabled", pw |-> NoPw, flag |-> LowerStr(call.data.enabled)]

\* await coordinators[ind].set_wlanconf(ssid, payload): the call is issued
IssueWrite(call, payload) ==
    [call EXCEPT !.pc = "writing",
                 !.trace = Append(@, Ev("set_wlanconf", call.ind, call.data.ssid, payload))]

\* what follows a passed SSID check
AfterValidate(call) ==
    CASE call.service = SERVICE_CUSTOM_PASSWORD -> IssueWrite(call, CustomPayload(call))
      [] call.service = SERVICE_RANDOM_PASSWORD ->
            [call EXCEPT !.pc = "generating",
                         !.trace = Append(@, Ev("create", 0, "", NoPayload))]
      [] OTHER -> IssueWrite(call, EnablePayload(call))

\* how a record of a read tells what the loop of _validate_ssid found
Verdict(at) == IF at = 0 THEN "miss" ELSE "hit"

\* the coordinators a call's step asked to refresh
Asked(b) == {b.refresh[k] : k \in DOMAIN b.refresh}

\* ind = _coordinator_index(coordinator); if _validate_ssid(...): ...
\* Yields the call and the coordinators whose refresh was asked for.
LookupAndValidate(call, conf) ==
    LET ind == _coordinator_index(call.data.name)
        c1  == [call EXCEPT !.ind = ind,
                            !.trace = Append(@, Ev("lookup", ind, "", NoPayload))]
    IN  IF ind = 0
        THEN [call |-> Fail(c1, "CoordinatorNotConfigured"), refresh |-> <<>>]
        ELSE LET v  == _validate_ssid(ValidateArg(c1, ind), c1.data.ssid, conf)
                 c2 == [c1 EXCEPT
                          !.present = \E k \in DOMAIN conf[ind] : conf[ind][k].name = c1.data.ssid,
                          !.trace = @ \o [k \in DOMAIN v.refresh |->
                                            Ev("refresh", v.refresh[k], "", NoPayload)]
                                      \o [k \in DOMAIN v.read |->
                                            Ev("read", v.read[k], c1.data.ssid,
                                               [NoPayload EXCEPT !.flag = Verdict(v.at)])]]
             IN  IF v.raised # ""
                 THEN [call |-> Fail(c2, v.raised), refresh |-> v.refresh]
                 ELSE [call |-> AfterValidate(c2), refresh |-> v.refresh]

\* a handler from its first line after the authorization block
Body(call, conf) ==
    IF call.service = SERVICE_RANDOM_PASSWORD
    THEN LET d == Delimiter(call.data.delimiter) IN
         IF d = "?"
         THEN [call |-> Fail(call, "InvalidDelimiter"), refresh |-> <<>>]
         ELSE LookupAndValidate([call EXCEPT !.delimiter = d], conf)
    ELSE LookupAndValidate(call, conf)

-----------------------------------------------------------------------------
(* Inputs *)

WlanNames == {"Guest", "Office"}

\* a controller's answers: ids are the controller's, names may repeat
RECURSIVE Lists(_)
Lists(n) ==
    IF n = 0 THEN {<<>>}
    ELSE Lists(n - 1) \cup
         {Append(l, [_id |-> n, name |-> s]) : l \in {x \in Lists(n - 1) : Len(x) = n - 1},
                                               s \in WlanNames}

Responses == Lists(MaxWlans)

Names == {"c1", "c2", "nope"}

Ssids == {"Guest", "Office"}

CustomData ==
    {[NoData EXCEPT !.name = n, !.ssid = s, !.password = p] :
        n \in Names, s \in Ssids,
        p \in {Pw(PASSWORD_MIN, TRUE), Pw(PASSWORD_MIN - 1, TRUE), Pw(PASSWORD_MAX, FALSE)}}

EnableData ==
    {[NoData EXCEPT !.name = n, !.ssid = s, !.enabled = e] :
        n \in Names, s \in Ssids, e \in BOOLEAN}

RandomData ==
    {[NoData EXCEPT !.name = n, !.ssid = s, !.method = m, !.delimiter = dl,
                    !.min_length = lo, !.max_length = hi,
                    !.word_count = WORD_COUNT_MIN, !.char_count = 0] :
        n \in Names, s \in Ssids, m \in CONF_METHOD_TYPES, dl \in {"dash", "comma"},
        lo \in {WORD_LENGTH_MIN, WORD_LENGTH_MIN + 1}, hi \in {WORD_LENGTH_MIN}}

DataOf(service) ==
    CASE service = SERVICE_CUSTOM_PASSWORD -> CustomData
      [] service = SERVICE_RANDOM_PASSWORD -> RandomData
      [] OTHER -> EnableData

\* the calls the platform may hand over: service, user id, data
AllInputs ==
    UNION {{<<service, u, d>> : u \in UserIds, d \in DataOf(service)} : service \in Services}

\* calls of an administrator that pass their schema, on the configured
\* coordinators: for runs with two calls in flight
ConcInputs ==
    {x \in AllInputs :
        /\ x[2] = "admin"
        /\ x[3].name \in {"c1", "c2"}
        /\ x[3].ssid = "Guest"
        /\ Schema(x[1], x[3]).ok
        /\ x[1] = SERVICE_ENABLE_WLAN => x[3].enabled
        /\ x[1] = SERVICE_RANDOM_PASSWORD => x[3].method = "passphrase"}

\* random-password calls over the whole of the schema's ranges and one step
\* beyond them, 0 and ABSENT standing for a key left out
PwInputs ==
    LET lengths == {0} \cup (WORD_LENGTH_MIN - 1)..(WORD_LENGTH_MAX + 1)
        counts  == {0} \cup (WORD_COUNT_MIN - 1)..(WORD_COUNT_MAX + 1)
        chars   == {0} \cup (CHAR_COUNT_MIN - 1)..(CHAR_COUNT_MAX + 1)
        base    == [NoData EXCEPT !.name = "c1", !.ssid = "Guest"]
    IN  {<<SERVICE_RANDOM_PASSWORD, "",
           [base EXCEPT !.method = "passphrase", !.delimiter = dl, !.min_length = lo,
                        !.max_length = hi, !.word_count = wc]>> :
            dl \in CONF_DELIMITER_TYPES \cup {ABSENT, "comma"},
            lo \in lengths, hi \in lengths, wc \in counts}
        \cup
        {<<SERVICE_RANDOM_PASSWORD, "",
           [base EXCEPT !.method = "random", !.delimiter = ABSENT, !.char_count = cc]>> :
            cc \in chars}

ConcResponses == {r \in Responses : Len(r) <= 1 /\ \A k \in DOMAIN r : r[k].name = "Guest"}

-----------------------------------------------------------------------------
(* Actions *)

\* the schema, then the handler up to its first await.
\* Yields the call and the coordinators whose refresh was asked for.
Dispatch(call, conf) ==
    LET v  == Schema(call.service, call.data)
        c1 == [call EXCEPT !.data = v.data]
    IN  IF ~v.ok THEN [call |-> Fail(call, "Invalid"), refresh |-> <<>>]
        ELSE IF c1.user_id # "" THEN [call |-> [c1 EXCEPT !.pc = "get_user"], refresh |-> <<>>]
        ELSE Body(c1, conf)

\* hass.services.async_call: a call of a registered service arrives, its data
\* pass through the schema and its handler starts
async_call_of(c, inputs) ==
    /\ calls[c].pc = "idle"
    /\ \E x \in inputs :
          LET b == Dispatch([IdleCall EXCEPT !.pc = "received", !.service = x[1],
                                             !.user_id = x[2], !.data = x[3]],
                            wlanconf)
          IN  /\ calls' = [calls EXCEPT ![c] = b.call]
              /\ refresh_pending' = [i \in Inds |-> refresh_pending[i] \/ i \in Asked(b)]
    /\ UNCHANGED wlanconf

async_call(c) == async_call_of(c, AllInputs)

\* user = await hass.auth.async_get_user(...) returns; the handler runs on to
\* its next await
GetUserReturn(c) ==
    /\ calls[c].pc = "get_user"
    /\ LET a == AuthCheck(async_get_user(calls[c].user_id))
           b == IF a # "ok"
                THEN [call |-> Fail(calls[c], a), refresh |-> <<>>]
                ELSE Body(calls[c], wlanconf)
       IN  /\ calls' = [calls EXCEPT ![c] = b.call]
           /\ refresh_pending' = [i \in Inds |-> refresh_pending[i] \/ i \in Asked(b)]
    /\ UNCHANGED wlanconf

\* await hass.async_add_executor_job(pw.create, ...) returns; the payload is
\* built and set_wlanconf is called
ExecutorReturn(c) ==
    /\ calls[c].pc = "generating"
    /\ LET d == calls[c].data IN
       \E p \in create(d.method, calls[c].delimiter, d.min_length, d.max_length,
                       d.word_count, d.char_count) :
          LET c1 == [calls[c] EXCEPT
                        !.password = p,
                        !.trace = Append(@, Ev("created", 0, "", [NoPayload EXCEPT !.pw = p]))]
          IN  calls' = [calls EXCEPT ![c] = IssueWrite(c1, RandomPayload(c1))]
    /\ UNCHANGED <<wlanconf, refresh_pending>>

\* await coordinators[ind].set_wlanconf(...) returns or raises
SetWlanconfReturn(c) ==
    /\ calls[c].pc = "writing"
    /\ \E r \in {"ok", "ControllerError"} :
          calls' = [calls EXCEPT ![c] = [@ EXCEPT !.pc = "done", !.result = r]]
    /\ UNCHANGED <<wlanconf, refresh_pending>>

\* the caller has its answer; the slot is free again
Return(c) ==
    /\ calls[c].pc = "done"
    /\ calls' = [calls EXCEPT ![c] = IdleCall]
    /\ UNCHANGED <<wlanconf, refresh_pending>>

\* a refresh of coordinators[i] runs (asked for, or the scan interval's poll)
\* and succeeds: the controller's answer replaces the cache
RefreshOf(i, responses) ==
    /\ \E r \in responses : wlanconf' = [wlanconf EXCEPT ![i] = r]
    /\ refresh_pending' = [refresh_pending EXCEPT ![i] = FALSE]
    /\ UNCHANGED calls

Refresh(i) == RefreshOf(i, Responses)

\* a refresh of coordinators[i] runs and fails: the cache stays
RefreshFails(i) ==
    /\ refresh_pending[i]
    /\ refresh_pending' = [refresh_pending EXCEPT ![i] = FALSE]
    /\ UNCHANGED <<wlanconf, calls>>

Init ==
    /\ wlanconf = [i \in Inds |-> <<>>]
    /\ refresh_pending = [i \in Inds |-> FALSE]
    /\ calls = [c \in Calls |-> IdleCall]

\* service calls one at a time, against refreshes of both coordinators
Next ==
    \/ async_call(1)
    \/ GetUserReturn(1)
    \/ ExecutorReturn(1)
    \/ SetWlanconfReturn(1)
    \/ Return(1)
    \/ \E i \in Inds : Refresh(i)
    \/ \E i \in Inds : RefreshFails(i)

Spec == Init /\ [][Next]_vars

\* two service calls in flight at once
NextConc ==
    \/ \E c \in Calls : async_call_of(c, ConcInputs)
    \/ \E c \in Calls : GetUserReturn(c)
    \/ \E c \in Calls : ExecutorReturn(c)
    \/ \E c \in Calls : SetWlanconfReturn(c)
    \/ \E c \in Calls : Return(c)
    \/ \E i \in Inds : RefreshOf(i, ConcResponses)
    \/ \E i \in Inds : RefreshFails(i)

SpecConc == Init /\ [][NextConc]_vars

\* random-password calls of every parameter combination, one at a time, on
\* caches that hold the SSID
InitPw ==
    /\ wlanconf = [i \in Inds |-> <<[_id |-> 1, name |-> "Guest"]>>]
    /\ refresh_pending = [i \in Inds |-> FALSE]
    /\ calls = [c \in Calls |-> IdleCall]

NextPw ==
    \/ async_call_of(1, PwInputs)
    \/ ExecutorReturn(1)
    \/ SetWlanconfReturn(1)
    \/ Return(1)

SpecPw == InitPw /\ [][NextPw]_vars

-----------------------------------------------------------------------------
(* Vocabulary of the properties *)

\* the positions of a call's record at which it did op
Positions(call, op) == {k \in DOMAIN call.trace : call.trace[k].op = op}

Configured(name) == \E i \in Inds : coordinators[i].name = name

\* the caller may control the integration: no user id, or an administrator's
Authorized(call) == call.user_id = "" \/ call.user_id = "admin"

\* the handler got as far as checking an SSID on a configured coordinator
AtCheck(call) == call.ind # 0

NamesOf(conf) == {conf[k].name : k \in DOMAIN conf}

\* what a call did to coordinators
Touches(call) ==
    {k \in DOMAIN call.trace : call.trace[k].op \in {"refresh", "read", "set_wlanconf"}}

\* the random-password parameters the schema must turn away
BadPasswordSpec(d) ==
    LET e == RandomDefaults(d) IN
    \/ e.delimiter \notin {"space", "dash", "none"}
    \/ e.min_length > e.max_length

-----------------------------------------------------------------------------
(* C1 *)

\* C1: a call of any of the three services that is authorized, names a
\* configured coordinator and asks for an SSID present in that coordinator's
\* cache has issued exactly one set_wlanconf on that coordinator for that SSID
\* when it completes.
C1_WriteOnSuccessPath ==
    \A c \in Calls :
        LET call == calls[c] IN
        (/\ call.pc = "done"
         /\ call.result # "Invalid"
         /\ Authorized(call)
         /\ Configured(call.data.name)
         /\ call.present)
        => Cardinality({k \in Positions(call, "set_wlanconf") :
                          /\ coordinators[call.trace[k].ind].name = call.data.name
                          /\ call.trace[k].ssid = call.data.ssid}) = 1

-----------------------------------------------------------------------------
(* C2 *)

\* C2 as stated: an update for an SSID absent from the addressed coordinator's
\* cache fails with the not-found error and has asked for neither a
\* set_wlanconf nor a refresh.
C2_AbsentSsidNoRequest ==
    \A c \in Calls :
        LET call == calls[c] IN
        (call.pc = "done" /\ AtCheck(call) /\ ~call.present)
        => /\ call.result = "SsidNotFound"
           /\ Positions(call, "set_wlanconf") = {}
           /\ Positions(call, "refresh") = {}

\* C2 as amended: an update for an SSID absent from the addressed
\* coordinator's cache fails without a set_wlanconf and without generating a
\* password; the custom- and random-password services fail with the not-found
\* error after asking for one refresh of the addressed coordinator, the
\* enable service with the TypeError of its check, which asks for none.
C2_AbsentSsidNoWrite ==
    \A c \in Calls :
        LET call == calls[c] IN
        (AtCheck(call) /\ ~call.present)
        => /\ call.pc = "done"
           /\ Positions(call, "set_wlanconf") = {}
           /\ Positions(call, "create") = {}
           /\ IF call.service = SERVICE_ENABLE_WLAN
              THEN call.result = "TypeError" /\ Positions(call, "refresh") = {}
              ELSE /\ call.result = "SsidNotFound"
                   /\ Cardinality(Positions(call, "refresh")) = 1
                   /\ \A k \in Positions(call, "refresh") :
                         coordinators[call.trace[k].ind].name = call.data.name

\* a custom-password call has failed on an SSID that the non-empty cache of
\* its coordinator does not hold
C2_Witness ==
    \E c \in Calls :
        /\ calls[c].pc = "done"
        /\ calls[c].service = SERVICE_CUSTOM_PASSWORD
        /\ AtCheck(calls[c])
        /\ ~calls[c].present
        /\ calls[c].result = "SsidNotFound"
        /\ wlanconf[calls[c].ind] # <<>>
        /\ calls[c].data.ssid \notin NamesOf(wlanconf[calls[c].ind])

-----------------------------------------------------------------------------
(* C3 *)

\* C3: a call whose user id resolves to a user who is no administrator never
\* gets past the authorization block: it has looked up no coordinator, asked
\* for no refresh, generated no password and issued no set_wlanconf, and when
\* its handler has run it has failed with Unauthorized; and whatever call
\* ends Unauthorized has done none of those things.
C3_AuthorizationFirst ==
    \A c \in Calls :
        LET call == calls[c] IN
        /\ (call.user_id # "" /\ async_get_user(call.user_id).found
              /\ ~async_get_user(call.user_id).is_admin)
           => /\ call.trace = <<>>
              /\ call.ind = 0
              /\ call.pc \in {"get_user", "done"}
              /\ call.pc = "done" => call.result \in {"Invalid", "Unauthorized"}
              /\ (call.pc = "done" /\ Schema(call.service, call.data).ok)
                    => call.result = "Unauthorized"
        /\ call.result = "Unauthorized" => call.trace = <<>> /\ call.pc = "done"

\* a random-password call of a user who is no administrator has failed
\* Unauthorized while a refresh would have found its SSID
C3_Witness ==
    \E c \in Calls :
        /\ calls[c].service = SERVICE_RANDOM_PASSWORD
        /\ calls[c].user_id = "guest"
        /\ calls[c].result = "Unauthorized"
        /\ Configured(calls[c].data.name)
        /\ \E i \in Inds : /\ coordinators[i].name = calls[c].data.name
                           /\ calls[c].data.ssid \in NamesOf(wlanconf[i])

-----------------------------------------------------------------------------
(* C4 *)

\* C4: a call naming a coordinator that is not configured asks for no
\* refresh, generates no password and issues no set_wlanconf; it looks the
\* name up at most once, and once the lookup has run the call has failed with
\* the not-configured error.
C4_UnknownCoordinator ==
    \A c \in Calls :
        LET call == calls[c] IN
        (call.pc # "idle" /\ ~Configured(call.data.name))
        => /\ Touches(call) = {}
           /\ Positions(call, "create") = {}
           /\ Cardinality(Positions(call, "lookup")) <= 1
           /\ call.pc \in {"get_user", "done"}
           /\ call.pc = "done" =>
                call.result \in {"Invalid", "NameError", "Unauthorized",
                                 "CoordinatorNotConfigured"}
           /\ (call.pc = "done" /\ Authorized(call) /\ Schema(call.service, call.data).ok)
                 => call.result = "CoordinatorNotConfigured"
           /\ Positions(call, "lookup") # {} =>
                call.pc = "done" /\ call.result = "CoordinatorNotConfigured"

\* an administrator's enable call on a coordinator that is not configured has
\* failed at the lookup
C4_Witness ==
    \E c \in Calls :
        /\ calls[c].service = SERVICE_ENABLE_WLAN
        /\ calls[c].user_id = "admin"
        /\ ~Configured(calls[c].data.name)
        /\ calls[c].pc = "done"
        /\ calls[c].result = "CoordinatorNotConfigured"
        /\ Cardinality(Positions(calls[c], "lookup")) = 1

-----------------------------------------------------------------------------
(* C5 *)

\* C5 as stated: a call that has checked an SSID has asked for no refresh, and
\* the verdict of the check is whether the cache held the SSID at that moment.
C5_CheckRequestsNoRefresh ==
    \A c \in Calls :
        LET call == calls[c] IN
        Positions(call, "read") # {}
        => /\ Positions(call, "refresh") = {}
           /\ \A k \in Positions(call, "read") :
                 call.trace[k].payload.flag = "hit" <=> call.present

\* C5 as amended: _validate_ssid handed a coordinator's position asks for
\* exactly one refresh of that coordinator, does not wait for it, and reads
\* that coordinator's cache once; its verdict is whether the cache held the
\* SSID at the moment of the check.  Handed a name, as by the enable service,
\* it raises TypeError before asking for a refresh or reading a cache.
C5_CheckRequestsOneRefresh ==
    \A c \in Calls :
        LET call == calls[c] IN
        AtCheck(call)
        => IF call.service = SERVICE_ENABLE_WLAN
           THEN /\ Positions(call, "refresh") = {}
                /\ Positions(call, "read") = {}
                /\ call.pc = "done"
                /\ call.result = "TypeError"
           ELSE /\ Positions(call, "refresh") = {2}
                /\ Positions(call, "read") = {3}
                /\ call.trace[2].ind = call.ind
                /\ call.trace[3].ind = call.ind
                /\ call.trace[3].ssid = call.data.ssid
                /\ call.trace[3].payload.flag = "hit" <=> call.present
                /\ call.trace[3].payload.flag = "miss" <=> ~call.present
                /\ call.result = "SsidNotFound" <=> ~call.present

\* a custom-password call passed its check on the cache of that moment and
\* waits for set_wlanconf, while a refresh has since replaced the cache with
\* one that lacks the SSID
C5_Witness ==
    \E c \in Calls :
        /\ calls[c].service = SERVICE_CUSTOM_PASSWORD
        /\ calls[c].pc = "writing"
        /\ calls[c].present
        /\ Positions(calls[c], "refresh") = {2}
        /\ calls[c].trace[3].payload.flag = "hit"
        /\ calls[c].data.ssid \notin NamesOf(wlanconf[calls[c].ind])

-----------------------------------------------------------------------------
(* C6 *)

\* C6: a random-password call whose delimiter token is unrecognised or whose
\* min_length exceeds its max_length is turned away as invalid with nothing
\* done: no lookup, no refresh request, no password generation, no
\* set_wlanconf.
C6_InvalidSpecRejectedFirst ==
    \A c \in Calls :
        LET call == calls[c] IN
        (call.service = SERVICE_RANDOM_PASSWORD /\ BadPasswordSpec(call.data))
        => /\ call.pc = "done"
           /\ call.result = "Invalid"
           /\ call.trace = <<>>

\* an administrator's call with min_length above max_length, and otherwise
\* fit to succeed, has been turned away
C6_Witness ==
    \E c \in Calls :
        /\ calls[c].service = SERVICE_RANDOM_PASSWORD
        /\ calls[c].data.min_length > calls[c].data.max_length
        /\ calls[c].data.delimiter = "dash"
        /\ calls[c].user_id \in {"", "admin"}
        /\ calls[c].result = "Invalid"
        /\ \E i \in Inds : /\ coordinators[i].name = calls[c].data.name
                           /\ calls[c].data.ssid \in NamesOf(wlanconf[i])

-----------------------------------------------------------------------------
(* C7 *)

\* C7: on every cache a refresh leaves, the SSID check of a coordinator
\* succeeds for each name the cache holds, stopping at the first entry of
\* that name, and fails with the not-found error for each name it does not
\* hold; and each check a call made found the SSID exactly when the cache
\* held it.
C7_LookupMatchesCache ==
    /\ \A i \in Inds : \A s \in WlanNames \cup {"Nope"} :
          LET v == _validate_ssid(IntVal(i), s, wlanconf) IN
          IF s \in NamesOf(wlanconf[i])
          THEN /\ v.raised = ""
               /\ wlanconf[i][v.at].name = s
               /\ \A j \in 1..(v.at - 1) : wlanconf[i][j].name # s
          ELSE v.raised = "SsidNotFound" /\ v.at = 0
    /\ \A c \in Calls : \A k \in Positions(calls[c], "read") :
          calls[c].trace[k].payload.flag = "hit" <=> calls[c].present

\* a coordinator's cache holds the same name twice, with another name before
\* or without, and a call has found that name there
C7_Witness ==
    \E c \in Calls : \E i \in Inds :
        /\ calls[c].ind = i
        /\ Positions(calls[c], "read") # {}
        /\ calls[c].present
        /\ Len(wlanconf[i]) >= 2
        /\ wlanconf[i][1].name = calls[c].data.ssid
        /\ wlanconf[i][2].name = calls[c].data.ssid

-----------------------------------------------------------------------------
(* C8 *)

\* C8: every password generated for a random-password call that passed the
\* schema, and every password such a call sends, is 8 to 63 characters long;
\* with the random method it is char_count characters long.
C8_PasswordLengthInBounds ==
    \A c \in Calls :
        LET call == calls[c] IN
        call.service = SERVICE_RANDOM_PASSWORD
        => /\ \A k \in Positions(call, "created") \cup Positions(call, "set_wlanconf") :
                 /\ call.trace[k].payload.pw.len >= PASSWORD_MIN
                 /\ call.trace[k].payload.pw.len <= PASSWORD_MAX
                 /\ call.data.method = "random" =>
                       call.trace[k].payload.pw.len = call.data.char_count
           /\ call.pc = "writing" => Positions(call, "created") # {}

\* the longest passphrase: word_count 6, words of 9 letters, a delimiter
\* between them
C8_Witness ==
    \E c \in Calls :
        /\ calls[c].service = SERVICE_RANDOM_PASSWORD
        /\ calls[c].data.method = "passphrase"
        /\ calls[c].pc = "writing"
        /\ calls[c].data.word_count = WORD_COUNT_MAX
        /\ calls[c].password.len = WORD_COUNT_MAX * WORD_LENGTH_MAX + (WORD_COUNT_MAX - 1)

-----------------------------------------------------------------------------
(* C9 *)

\* C9: in a random-password call the generation starts only after the lookup
\* found the coordinator and the check found the SSID, set_wlanconf is issued
\* only after the generation has returned, and its payload carries exactly
\* the password the generation returned.
C9_GenerateThenWrite ==
    \A c \in Calls :
        LET call == calls[c] IN
        call.service = SERVICE_RANDOM_PASSWORD
        => /\ \A k \in Positions(call, "create") :
                 /\ \E j \in 1..(k - 1) : call.trace[j].op = "lookup" /\ call.trace[j].ind # 0
                 /\ \E j \in 1..(k - 1) :
                       call.trace[j].op = "read" /\ call.trace[j].payload.flag = "hit"
           /\ \A k \in Positions(call, "created") :
                 \E j \in 1..(k - 1) : call.trace[j].op = "create"
           /\ \A k \in Positions(call, "set_wlanconf") :
                 /\ \E j \in 1..(k - 1) :
                       /\ call.trace[j].op = "created"
                       /\ call.trace[k].payload.pw = call.trace[j].payload.pw
                 /\ call.trace[k].payload.key = UNIFI_PASSWORD
           /\ call.pc = "generating" =>
                 Positions(call, "created") = {} /\ Positions(call, "set_wlanconf") = {}
           /\ Cardinality(Positions(call, "set_wlanconf")) <= 1

\* a random-password call has sent a generated passphrase
C9_Witness ==
    \E c \in Calls :
        /\ calls[c].service = SERVICE_RANDOM_PASSWORD
        /\ calls[c].data.method = "passphrase"
        /\ calls[c].pc = "done"
        /\ calls[c].result = "ok"
        /\ \E k \in Positions(calls[c], "set_wlanconf") :
              calls[c].trace[k].payload.pw.len >= PASSWORD_MIN

-----------------------------------------------------------------------------
(* C10 *)

\* C10: whatever calls are in flight, every cache a call reads and every
\* refresh and set_wlanconf it asks for is on the coordinator it names.
C10_OnlyTheNamedCoordinator ==
    \A c \in Calls :
        \A k \in Touches(calls[c]) :
            /\ calls[c].trace[k].ind \in Inds
            /\ coordinators[calls[c].trace[k].ind].name = calls[c].data.name

\* two calls in flight, one writing on each coordinator
C10_Witness ==
    /\ calls[1].pc = "writing"
    /\ calls[2].pc = "writing"
    /\ calls[1].data.name = "c1"
    /\ calls[2].data.name = "c2"
    /\ Positions(calls[1], "refresh") # {}
    /\ Positions(calls[2], "refresh") # {}

====
